---- MODULE Spec2Model ----
(***************************************************************************)
(* Vetcent backend (src/main.py): the supplier price list, the offer       *)
(* queries and the cart / order workflow, as request handlers over three   *)
(* remote tables (supplier_prices, orders, order_items).                   *)
(*                                                                         *)
(* A table is a sequence of rows; a row's id is its position (the service  *)
(* never deletes a row).  A handler is a sequence of remote calls; every   *)
(* remote call is one step of the handler (select_draft .. update_status), *)
(* so that handlers can be run to completion (Spec, SpecStock, SpecPrices, *)
(* SpecOffers) or interleaved call by call (SpecConc).  A remote call that *)
(* fails for reasons outside the service (network, platform outage) is not *)
(* modelled; the one remote error the handlers themselves provoke,         *)
(* .single() on a result that is not exactly one row, is.                  *)
(***************************************************************************)
EXTENDS Integers, Sequences, FiniteSets, TLC

VARIABLES supplier_prices, orders, order_items, last, procs, added

vars == <<supplier_prices, orders, order_items, last, procs, added>>

(* ------------------------------ bounds -------------------------------- *)
MaxPriceRows == 2
MaxOrders == 2
MaxQuantity == 3

Clinics == {"c1"}
Products == {"p1", "p2"}
Suppliers == {"s1"}

\* request values of the price-list requests; the non-positive ones are the
\* inputs the range checks are about
PriceInputs == {0, 1}
StockInputs == {-1, 0}
DeliveryInputs == {0, 1}
\* request values of the offer scenarios: two prices and two lead times, so that
\* rows can differ or tie on either sort key, and stock on either side of 0
OfferPrices == {1, 2}
OfferStocks == {0, 1}
OfferDeliveries == {1, 2}
QuantityInputs == {0, 1, 2}

PriceIds == 1..MaxPriceRows

\* Optional[T]: <<>> is None, <<v>> is the value v
Opt(S) == {<<>>} \cup {<<v>> : v \in S}

(* --------------------------- the remote tables ------------------------ *)
db_now == [supplier_prices |-> supplier_prices, orders |-> orders, order_items |-> order_items]

NoResponse == [op |-> "none", status |-> 0, calls |-> 0]

\* .insert(row): the row is appended and gets the next id
Insert(table, row) == Append(table, row)

\* the mutant: the order lookup without .eq("status", "draft")
DraftOrderIds_AnyStatus(db, clinic_user_id) ==
    {i \in DOMAIN db.orders : db.orders[i].clinic_user_id = clinic_user_id}

\* .eq/.gt filters: the ids of the rows that satisfy them
DraftOrderIds(db, clinic_user_id) ==
    {i \in DOMAIN db.orders :
        /\ db.orders[i].clinic_user_id = clinic_user_id
        /\ db.orders[i].status = "draft"}

ItemIdsOfOrder(db, order_id) ==
    {i \in DOMAIN db.order_items : db.order_items[i].order_id = order_id}

(* ----------------------- supplier price list -------------------------- *)
\* SupplierPriceCreate bodies
CreatePayloads(suppliers, products, prices, stocks, deliveries) ==
    [supplier_id : Opt(suppliers), product_id : products, price : prices,
     stock : stocks, delivery_days : deliveries, is_active : BOOLEAN]

\* SupplierPriceUpdate bodies
UpdatePayloads(prices, stocks, deliveries) ==
    [price : Opt(prices), stock : Opt(stocks),
     delivery_days : Opt(deliveries), is_active : Opt(BOOLEAN)]

\* the bodies that provide at most one field
SmallUpdatePayloads(prices, stocks, deliveries) ==
    {payload \in UpdatePayloads(prices, stocks, deliveries) :
        Cardinality({k \in DOMAIN payload : payload[k] /= <<>>}) <= 1}

\* POST /supplier/prices: the three range checks and the supplier_id check come
\* before the insert
create_supplier_price(db, payload) ==
    LET rejected == [op |-> "create_supplier_price", status |-> 400, calls |-> 0, price_id |-> 0]
    IN  IF payload.price <= 0 THEN {[db |-> db, resp |-> rejected]}
        ELSE IF payload.stock < 0 THEN {[db |-> db, resp |-> rejected]}
        ELSE IF payload.delivery_days <= 0 THEN {[db |-> db, resp |-> rejected]}
        ELSE IF payload.supplier_id = <<>> THEN {[db |-> db, resp |-> rejected]}
        ELSE LET row == [supplier_id |-> payload.supplier_id[1],
                         product_id |-> payload.product_id,
                         price |-> payload.price,
                         stock |-> payload.stock,
                         delivery_days |-> payload.delivery_days,
                         is_active |-> payload.is_active]
                 table == Insert(db.supplier_prices, row)
             IN  {[db |-> [db EXCEPT !.supplier_prices = table],
                   resp |-> [op |-> "create_supplier_price", status |-> 200, calls |-> 1,
                             price_id |-> Len(table)]]}

\* updates = {k: v for k, v in payload.dict().items() if v is not None}
UpdatesOf(payload) == {k \in DOMAIN payload : payload[k] /= <<>>}

\* .update(updates): the row with the named fields overwritten
UpdatedRow(row, updates, payload) ==
    [k \in DOMAIN row |-> IF k \in updates THEN payload[k][1] ELSE row[k]]

\* the mutant: the update without its .eq("id", price_id) filter
MatchedPriceIds_NoFilter(db, price_id) == DOMAIN db.supplier_prices

\* .eq("id", str(price_id))
MatchedPriceIds(db, price_id) == {i \in DOMAIN db.supplier_prices : i = price_id}

\* PUT /supplier/prices/{price_id}: no range check on the provided values
update_supplier_price(db, price_id, payload) ==
    LET updates == UpdatesOf(payload)
        matched == MatchedPriceIds(db, price_id)
        table == [i \in DOMAIN db.supplier_prices |->
                    IF i \in matched
                    THEN UpdatedRow(db.supplier_prices[i], updates, payload)
                    ELSE db.supplier_prices[i]]
        resp(status, calls) ==
            [op |-> "update_supplier_price", status |-> status, calls |-> calls,
             price_id |-> price_id, payload |-> payload]
    IN  IF updates = {} THEN {[db |-> db, resp |-> resp(400, 0)]}
        ELSE IF matched = {}
             THEN {[db |-> [db EXCEPT !.supplier_prices = table], resp |-> resp(404, 1)]}
             ELSE {[db |-> [db EXCEPT !.supplier_prices = table], resp |-> resp(200, 1)]}

\* PATCH /supplier/prices/{price_id}/deactivate
deactivate_supplier_price(db, price_id) ==
    LET matched == MatchedPriceIds(db, price_id)
        table == [i \in DOMAIN db.supplier_prices |->
                    IF i \in matched
                    THEN [db.supplier_prices[i] EXCEPT !.is_active = FALSE]
                    ELSE db.supplier_prices[i]]
        resp(status) ==
            [op |-> "deactivate_supplier_price", status |-> status, calls |-> 1,
             price_id |-> price_id]
    IN  IF matched = {}
        THEN {[db |-> [db EXCEPT !.supplier_prices = table], resp |-> resp(404)]}
        ELSE {[db |-> [db EXCEPT !.supplier_prices = table], resp |-> resp(200)]}

(* --------------------------- offer resolution ------------------------- *)
\* the mutant: the offer filter without .gt("stock", 0)
IsOffer_NoStockFilter(row, product_id) == row.product_id = product_id /\ row.is_active

\* .eq("product_id", ...).eq("is_active", True).gt("stock", 0)
IsOffer(row, product_id) ==
    /\ row.product_id = product_id
    /\ row.is_active
    /\ row.stock > 0

OfferIds(db, product_id) ==
    {i \in DOMAIN db.supplier_prices : IsOffer(db.supplier_prices[i], product_id)}

\* .order("price").order("delivery_days"): a before b is allowed
OrderLeq(a, b) ==
    \/ a.price < b.price
    \/ a.price = b.price /\ a.delivery_days <= b.delivery_days

\* select "id, price, stock, delivery_days, supplier_id"
OfferRow(db, i) ==
    [id |-> i,
     price |-> db.supplier_prices[i].price,
     stock |-> db.supplier_prices[i].stock,
     delivery_days |-> db.supplier_prices[i].delivery_days,
     supplier_id |-> db.supplier_prices[i].supplier_id]

\* The result lists the platform can return: every arrangement of the matching
\* rows that respects the two sort keys.  Rows equal on both keys come in an
\* order the query does not fix.
OfferLists(db, product_id) ==
    LET ids == OfferIds(db, product_id)
        n == Cardinality(ids)
        arrangements == {s \in [1..n -> ids] : \A i, j \in 1..n : i /= j => s[i] /= s[j]}
        sorted == {s \in arrangements :
                      \A i, j \in 1..n :
                          i < j => OrderLeq(db.supplier_prices[s[i]], db.supplier_prices[s[j]])}
    IN  {[i \in 1..n |-> OfferRow(db, s[i])] : s \in sorted}

\* GET /products/{product_id}/offers
get_product_offers(db, product_id) ==
    {[db |-> db,
      resp |-> [op |-> "get_product_offers", status |-> 200, calls |-> 1,
                product_id |-> product_id, offers |-> data]] :
        data \in OfferLists(db, product_id)}

\* GET /products/{product_id}/best-offer: the same query with .limit(1);
\* best = res.data[0] if res.data else None
get_product_best_offer(db, product_id) ==
    {[db |-> db,
      resp |-> [op |-> "get_product_best_offer", status |-> 200, calls |-> 1,
                product_id |-> product_id,
                best_offer |-> IF data = <<>> THEN <<>> ELSE <<data[1]>>]] :
        data \in OfferLists(db, product_id)}

(* ------------------------- cart / draft order ------------------------- *)
RECURSIVE SumOfItems(_, _)
\* sum((i.get("quantity") or 0) * (i.get("unit_price") or 0) for i in items)
SumOfItems(db, ids) ==
    IF ids = {} THEN 0
    ELSE LET i == CHOOSE x \in ids : TRUE
         IN  db.order_items[i].quantity * db.order_items[i].unit_price
                 + SumOfItems(db, ids \ {i})

\* the state of one request between two remote calls: the request body, the
\* handler's local variables, the next remote call (pc) and, once the handler
\* has returned or raised, the HTTP status
NewRequest(op, clinic_user_id, product_id, supplier_id, quantity) ==
    [op |-> op, pc |-> "select_draft", clinic_user_id |-> clinic_user_id,
     product_id |-> product_id, supplier_id |-> supplier_id, quantity |-> quantity,
     order_id |-> 0, unit_price |-> 0, item_id |-> 0, item_quantity |-> 0,
     items_count |-> 0, total |-> 0, status |-> 0, calls |-> 0]

Idle == [NewRequest("none", "", "", "", 0) EXCEPT !.pc = "idle"]

\* the handler returns, or raises HTTPException(status)
Returned(l, status) == [l EXCEPT !.pc = "done", !.status = status]

\* the remote call just made is counted and the handler goes on at pc
Called(l, pc) == [l EXCEPT !.pc = pc, !.calls = @ + 1]

\* .select("id").eq("clinic_user_id", ...).eq("status", "draft").limit(1):
\* one of the clinic's draft orders, whichever the platform returns first
select_draft(db, l) ==
    LET ids == DraftOrderIds(db, l.clinic_user_id)
    IN  IF l.op = "add_to_cart" /\ l.quantity <= 0
        THEN {[db |-> db, l |-> Returned(l, 400)]}
        ELSE IF l.op = "submit_order" /\ l.clinic_user_id = ""
        THEN {[db |-> db, l |-> Returned(l, 400)]}
        ELSE IF ids = {}
        THEN IF l.op = "add_to_cart"
             THEN {[db |-> db, l |-> Called(l, "insert_order")]}
             ELSE {[db |-> db, l |-> Returned(Called(l, "done"), 404)]}
        ELSE {[db |-> db,
               l |-> [Called(l, CASE l.op = "add_to_cart" -> "select_price"
                                  [] l.op = "create_order" -> "select_items"
                                  [] OTHER -> "update_status")
                      EXCEPT !.order_id = id]] : id \in ids}

\* add_to_cart, no draft found: insert {clinic_user_id, status: draft, total_amount: 0}
insert_order(db, l) ==
    LET table == Insert(db.orders, [clinic_user_id |-> l.clinic_user_id,
                                    status |-> "draft", total_amount |-> 0])
    IN  {[db |-> [db EXCEPT !.orders = table],
          l |-> [Called(l, "select_price") EXCEPT !.order_id = Len(table)]]}

\* .eq("product_id", ...).eq("supplier_id", ...).eq("is_active", True)
ActivePriceIds(db, product_id, supplier_id) ==
    {i \in DOMAIN db.supplier_prices :
        /\ db.supplier_prices[i].product_id = product_id
        /\ db.supplier_prices[i].supplier_id = supplier_id
        /\ db.supplier_prices[i].is_active}

\* .single().execute(): the one matching row; when the filters match no row or
\* several, the platform answers with an error and execute() raises
Single(ids) ==
    IF Cardinality(ids) = 1
    THEN [raised |-> FALSE, data |-> <<CHOOSE i \in ids : TRUE>>]
    ELSE [raised |-> TRUE, data |-> <<>>]

\* add_to_cart: the price lookup and the checks on its result.  An exception
\* that is no HTTPException is answered 500 by the handler's except clause.
select_price(db, l) ==
    LET sp == Single(ActivePriceIds(db, l.product_id, l.supplier_id))
    IN  IF sp.raised THEN {[db |-> db, l |-> Returned(Called(l, "done"), 500)]}
        ELSE IF sp.data = <<>> THEN {[db |-> db, l |-> Returned(Called(l, "done"), 404)]}
        ELSE IF db.supplier_prices[sp.data[1]].stock <= 0
        THEN {[db |-> db, l |-> Returned(Called(l, "done"), 400)]}
        ELSE {[db |-> db,
               l |-> [Called(l, "select_item")
                      EXCEPT !.unit_price = db.supplier_prices[sp.data[1]].price]]}

\* the mutant: the line lookup without .eq("product_id", ...)
MatchingItemIds_AnyProduct(db, order_id, product_id, supplier_id) ==
    {i \in DOMAIN db.order_items :
        /\ db.order_items[i].order_id = order_id
        /\ db.order_items[i].supplier_id = supplier_id}

\* .eq("order_id", ...).eq("product_id", ...).eq("supplier_id", ...)
MatchingItemIds(db, order_id, product_id, supplier_id) ==
    {i \in DOMAIN db.order_items :
        /\ db.order_items[i].order_id = order_id
        /\ db.order_items[i].product_id = product_id
        /\ db.order_items[i].supplier_id = supplier_id}

\* add_to_cart: .select("id, quantity") ... .limit(1)
select_item(db, l) ==
    LET ids == MatchingItemIds(db, l.order_id, l.product_id, l.supplier_id)
    IN  IF ids = {} THEN {[db |-> db, l |-> Called(l, "insert_item")]}
        ELSE {[db |-> db,
               l |-> [Called(l, "update_item")
                      EXCEPT !.item_id = id,
                             !.item_quantity = db.order_items[id].quantity]] : id \in ids}

\* the mutant: the update also writes the price just read into unit_price
update_item_Reprice(db, l) ==
    {[db |-> [db EXCEPT !.order_items[l.item_id].quantity = l.item_quantity + l.quantity,
                        !.order_items[l.item_id].unit_price = l.unit_price],
      l |-> Called(l, "recalc_select")]}

\* the mutant: the increment is made on the quantity the table holds at the
\* time of the write, not on the quantity read by the earlier select
update_item_Atomic(db, l) ==
    {[db |-> [db EXCEPT !.order_items[l.item_id].quantity = @ + l.quantity],
      l |-> Called(l, "recalc_select")]}

\* add_to_cart: .update({"quantity": item["quantity"] + payload.quantity}).eq("id", item["id"])
update_item(db, l) ==
    {[db |-> [db EXCEPT !.order_items[l.item_id].quantity = l.item_quantity + l.quantity],
      l |-> Called(l, "recalc_select")]}

\* add_to_cart: insert of the new line item, unit_price being the price read
insert_item(db, l) ==
    LET table == Insert(db.order_items,
                        [order_id |-> l.order_id, product_id |-> l.product_id,
                         supplier_id |-> l.supplier_id, quantity |-> l.quantity,
                         unit_price |-> l.unit_price])
    IN  {[db |-> [db EXCEPT !.order_items = table],
          l |-> [Called(l, "recalc_select") EXCEPT !.item_id = Len(table)]]}

\* the mutant: the items are read but an empty cart is not refused
select_items_NoEmptyCheck(db, l) ==
    {[db |-> db,
      l |-> [Called(l, "recalc_select")
             EXCEPT !.items_count = Cardinality(ItemIdsOfOrder(db, l.order_id))]]}

\* create_order: the order's items; an empty cart is refused
select_items(db, l) ==
    LET n == Cardinality(ItemIdsOfOrder(db, l.order_id))
    IN  IF n = 0 THEN {[db |-> db, l |-> Returned(Called(l, "done"), 400)]}
        ELSE {[db |-> db, l |-> [Called(l, "recalc_select") EXCEPT !.items_count = n]]}

\* the mutant: the total is kept up incrementally, the stored total plus the
\* requested quantity at the price just read
recalc_select_Incremental(db, l) ==
    {[db |-> db,
      l |-> [Called(l, "recalc_update")
             EXCEPT !.total = db.orders[l.order_id].total_amount + l.quantity * l.unit_price]]}

\* _recalc_and_update_order_total, first call: the items are read and summed
recalc_select(db, l) ==
    {[db |-> db,
      l |-> [Called(l, "recalc_update")
             EXCEPT !.total = SumOfItems(db, ItemIdsOfOrder(db, l.order_id))]]}

\* _recalc_and_update_order_total, second call: the total is stored
recalc_update(db, l) ==
    LET ll == Called(l, IF l.op = "create_order" THEN "update_status" ELSE "done")
    IN  {[db |-> [db EXCEPT !.orders[l.order_id].total_amount = l.total],
          l |-> IF ll.pc = "done" THEN Returned(ll, 200) ELSE ll]}

\* the mutant: submit_order writes a total_amount as create_order does
update_status_WithTotal(db, l) ==
    {[db |-> [db EXCEPT !.orders[l.order_id].status = "submitted",
                        !.orders[l.order_id].total_amount = l.total],
      l |-> Returned(Called(l, "done"), 200)]}

\* create_order: .update({"status": "submitted", "total_amount": total_amount});
\* submit_order: .update({"status": "submitted"})
update_status(db, l) ==
    LET table == IF l.op = "create_order"
                 THEN [db.orders EXCEPT ![l.order_id].status = "submitted",
                                        ![l.order_id].total_amount = l.total]
                 ELSE [db.orders EXCEPT ![l.order_id].status = "submitted"]
    IN  {[db |-> [db EXCEPT !.orders = table], l |-> Returned(Called(l, "done"), 200)]}

\* the next remote call of a request
Step(db, l) ==
    CASE l.pc = "select_draft" -> select_draft(db, l)
      [] l.pc = "insert_order" -> insert_order(db, l)
      [] l.pc = "select_price" -> select_price(db, l)
      [] l.pc = "select_item" -> select_item(db, l)
      [] l.pc = "update_item" -> update_item(db, l)
      [] l.pc = "insert_item" -> insert_item(db, l)
      [] l.pc = "select_items" -> select_items(db, l)
      [] l.pc = "recalc_select" -> recalc_select(db, l)
      [] l.pc = "recalc_update" -> recalc_update(db, l)
      [] l.pc = "update_status" -> update_status(db, l)

RECURSIVE Run(_, _)
\* a request run to completion: every remote call in turn
Run(db, l) ==
    IF l.pc = "done" THEN {[db |-> db, resp |-> l]}
    ELSE UNION {Run(c.db, c.l) : c \in Step(db, l)}

\* POST /cart/add
add_to_cart(db, clinic_user_id, product_id, supplier_id, quantity) ==
    Run(db, NewRequest("add_to_cart", clinic_user_id, product_id, supplier_id, quantity))

\* POST /orders
create_order(db, clinic_user_id) ==
    Run(db, NewRequest("create_order", clinic_user_id, "", "", 0))

\* POST /orders/submit
submit_order(db, clinic_user_id) ==
    Run(db, NewRequest("submit_order", clinic_user_id, "", "", 0))

(* ------------------------------ actions ------------------------------- *)
RECURSIVE TotalQuantity(_, _)
TotalQuantity(db, ids) ==
    IF ids = {} THEN 0
    ELSE LET i == CHOOSE x \in ids : TRUE
         IN  db.order_items[i].quantity + TotalQuantity(db, ids \ {i})

\* the runs explored: at most MaxPriceRows price rows, MaxOrders orders and
\* MaxQuantity units in all the line items together
InBounds(db) ==
    /\ Len(db.supplier_prices) <= MaxPriceRows
    /\ Len(db.orders) <= MaxOrders
    /\ TotalQuantity(db, DOMAIN db.order_items) <= MaxQuantity

\* a handler run to completion: the tables it leaves and the response it gives
Respond(r) ==
    /\ InBounds(r.db)
    /\ supplier_prices' = r.db.supplier_prices
    /\ orders' = r.db.orders
    /\ order_items' = r.db.order_items
    /\ last' = r.resp

CreateSupplierPrice(payloads) ==
    /\ \E payload \in payloads : \E r \in create_supplier_price(db_now, payload) : Respond(r)
    /\ UNCHANGED <<procs, added>>

UpdateSupplierPrice(payloads) ==
    /\ \E price_id \in PriceIds, payload \in payloads :
          \E r \in update_supplier_price(db_now, price_id, payload) : Respond(r)
    /\ UNCHANGED <<procs, added>>

DeactivateSupplierPrice ==
    /\ \E price_id \in PriceIds :
          \E r \in deactivate_supplier_price(db_now, price_id) : Respond(r)
    /\ UNCHANGED <<procs, added>>

GetProductOffers ==
    /\ \E product_id \in Products : \E r \in get_product_offers(db_now, product_id) : Respond(r)
    /\ UNCHANGED <<procs, added>>

GetProductBestOffer ==
    /\ \E product_id \in Products :
          \E r \in get_product_best_offer(db_now, product_id) : Respond(r)
    /\ UNCHANGED <<procs, added>>

\* the requests in flight when requests overlap
NumWorkers == 2
Workers == 1..NumWorkers

\* added[order, product, supplier]: the quantities of the add-to-cart requests
\* answered 200 for that line of that order, summed (a history of the run)
AddedKeys == (1..MaxOrders) \X Products \X Suppliers

AddToCart ==
    /\ \E clinic_user_id \in Clinics, product_id \in Products, supplier_id \in Suppliers,
          quantity \in QuantityInputs :
          \E r \in add_to_cart(db_now, clinic_user_id, product_id, supplier_id, quantity) :
              /\ Respond(r)
              /\ added' = IF r.resp.status = 200
                          THEN [added EXCEPT ![<<r.resp.order_id, product_id, supplier_id>>] =
                                                 @ + quantity]
                          ELSE added
    /\ UNCHANGED procs

CreateOrder ==
    /\ \E clinic_user_id \in Clinics : \E r \in create_order(db_now, clinic_user_id) : Respond(r)
    /\ UNCHANGED <<procs, added>>

SubmitOrder ==
    /\ \E clinic_user_id \in Clinics \cup {""} :
          \E r \in submit_order(db_now, clinic_user_id) : Respond(r)
    /\ UNCHANGED <<procs, added>>

Init ==
    /\ supplier_prices = <<>>
    /\ orders = <<>>
    /\ order_items = <<>>
    /\ last = NoResponse
    /\ procs = [w \in Workers |-> Idle]
    /\ added = [k \in AddedKeys |-> 0]

\* the price list, every request run to completion
NextPrices ==
    \/ CreateSupplierPrice(CreatePayloads(Suppliers, {"p1"}, PriceInputs, StockInputs, DeliveryInputs))
    \/ UpdateSupplierPrice(UpdatePayloads(PriceInputs, StockInputs, DeliveryInputs))
    \/ DeactivateSupplierPrice

\* the price-list requests of the cart scenarios: a supplier lists a product at
\* price 1 with stock, then changes the price or deactivates the row
CartCreatePayloads ==
    {payload \in CreatePayloads(Suppliers, Products, {1}, {1}, {1}) :
        payload.is_active /\ payload.supplier_id /= <<>>}

CartUpdatePayloads ==
    {payload \in SmallUpdatePayloads(OfferPrices, {}, {}) : payload.is_active = <<>>}

\* the cart workflow with the price list, every request run to completion
Next ==
    \/ CreateSupplierPrice(CartCreatePayloads)
    \/ UpdateSupplierPrice(CartUpdatePayloads)
    \/ DeactivateSupplierPrice
    \/ AddToCart
    \/ CreateOrder
    \/ SubmitOrder

Spec == Init /\ [][Next]_vars

\* the stock scenarios: rows listed with or without stock, active or not, and
\* add-to-cart requests against them
NextStock ==
    \/ CreateSupplierPrice(CreatePayloads(Suppliers, Products, {1}, OfferStocks, {1}))
    \/ UpdateSupplierPrice(SmallUpdatePayloads({}, OfferStocks, {}))
    \/ DeactivateSupplierPrice
    \/ AddToCart

SpecStock == Init /\ [][NextStock]_vars

SpecPrices == Init /\ [][NextPrices]_vars

\* the suppliers of the offer scenarios
OfferSuppliers == {"s1", "s2"}

\* the create requests of the offer scenarios: a supplier lists a product it has
\* not listed yet (one row per supplier and product, the convention the price
\* list is used under)
OfferCreatePayloads ==
    {payload \in CreatePayloads(OfferSuppliers, Products, OfferPrices, OfferStocks,
                                OfferDeliveries) :
        \A i \in DOMAIN supplier_prices :
            <<<<supplier_prices[i].supplier_id>>, supplier_prices[i].product_id>>
                /= <<payload.supplier_id, payload.product_id>>}

\* the price list with the offer queries, every request run to completion
NextOffers ==
    \/ CreateSupplierPrice(OfferCreatePayloads)
    \/ UpdateSupplierPrice(SmallUpdatePayloads(OfferPrices, OfferStocks, OfferDeliveries))
    \/ DeactivateSupplierPrice
    \/ GetProductOffers
    \/ GetProductBestOffer

SpecOffers == Init /\ [][NextOffers]_vars


(* --------------------- requests that overlap in time ------------------ *)
\* a worker takes a request when it has none in hand
Start(w, l) ==
    /\ procs[w].pc \in {"idle", "done"}
    /\ procs' = [procs EXCEPT ![w] = l]
    /\ UNCHANGED <<supplier_prices, orders, order_items, last, added>>

StartAddToCart(w) ==
    \E clinic_user_id \in Clinics, product_id \in Products, supplier_id \in Suppliers :
        Start(w, NewRequest("add_to_cart", clinic_user_id, product_id, supplier_id, 1))

StartCreateOrder(w) ==
    \E clinic_user_id \in Clinics : Start(w, NewRequest("create_order", clinic_user_id, "", "", 0))

StartSubmitOrder(w) ==
    \E clinic_user_id \in Clinics : Start(w, NewRequest("submit_order", clinic_user_id, "", "", 0))

\* one remote call of the request worker w has in hand
RemoteCall(w, pc) ==
    /\ procs[w].pc = pc
    /\ \E c \in Step(db_now, procs[w]) :
          /\ InBounds(c.db)
          /\ supplier_prices' = c.db.supplier_prices
          /\ orders' = c.db.orders
          /\ order_items' = c.db.order_items
          /\ procs' = [procs EXCEPT ![w] = c.l]
    /\ UNCHANGED <<last, added>>

SelectDraft(w) == RemoteCall(w, "select_draft")
InsertOrder(w) == RemoteCall(w, "insert_order")
SelectPrice(w) == RemoteCall(w, "select_price")
SelectItem(w) == RemoteCall(w, "select_item")
UpdateItem(w) == RemoteCall(w, "update_item")
InsertItem(w) == RemoteCall(w, "insert_item")
SelectItems(w) == RemoteCall(w, "select_items")
RecalcSelect(w) == RemoteCall(w, "recalc_select")
RecalcUpdate(w) == RemoteCall(w, "recalc_update")
UpdateStatus(w) == RemoteCall(w, "update_status")

\* the price list when the overlapping requests start: one product on offer
InitConc ==
    /\ supplier_prices = <<[supplier_id |-> "s1", product_id |-> "p1", price |-> 1,
                            stock |-> 1, delivery_days |-> 1, is_active |-> TRUE]>>
    /\ orders = <<>>
    /\ order_items = <<>>
    /\ last = NoResponse
    /\ procs = [w \in Workers |-> Idle]
    /\ added = [k \in AddedKeys |-> 0]

NextConc ==
    \E w \in Workers :
        \/ StartAddToCart(w)
        \/ StartCreateOrder(w)
        \/ StartSubmitOrder(w)
        \/ SelectDraft(w)
        \/ InsertOrder(w)
        \/ SelectPrice(w)
        \/ SelectItem(w)
        \/ UpdateItem(w)
        \/ InsertItem(w)
        \/ SelectItems(w)
        \/ RecalcSelect(w)
        \/ RecalcUpdate(w)
        \/ UpdateStatus(w)

\* the cart workflow, the remote calls of different requests interleaved
SpecConc == InitConc /\ [][NextConc]_vars

(* ====================== properties of the price list ================== *)
PatchFields == {"price", "stock", "delivery_days", "is_active"}

ProvidedFields(payload) == {k \in PatchFields : payload[k] /= <<>>}

\* C9: after any sequence of create, update and deactivate requests every
\* supplier price row has price > 0, stock >= 0 and delivery_days > 0.
\* (Refuted: update-supplier-price writes the provided values unchecked.)
C9_PriceRowsInRange ==
    \A i \in DOMAIN supplier_prices :
        /\ supplier_prices[i].price > 0
        /\ supplier_prices[i].stock >= 0
        /\ supplier_prices[i].delivery_days > 0

\* C10: an update whose body provides no field answers 400 before any remote
\* call; an update that names a price id that does not exist answers 404; both
\* leave every supplier price row as it was.  A successful update changes only
\* the named row, and of it only the provided fields, which take the provided
\* values.
C10_UpdateContract ==
    [][last'.op = "update_supplier_price" =>
        LET payload == last'.payload
            price_id == last'.price_id
            provided == ProvidedFields(payload)
        IN  /\ provided = {} =>
                /\ last'.status = 400
                /\ last'.calls = 0
                /\ supplier_prices' = supplier_prices
            /\ (provided /= {} /\ price_id \notin DOMAIN supplier_prices) =>
                /\ last'.status = 404
                /\ supplier_prices' = supplier_prices
            /\ (provided /= {} /\ price_id \in DOMAIN supplier_prices) =>
                /\ last'.status = 200
                /\ DOMAIN supplier_prices' = DOMAIN supplier_prices
                /\ \A i \in DOMAIN supplier_prices :
                      i /= price_id => supplier_prices'[i] = supplier_prices[i]
                /\ \A k \in DOMAIN supplier_prices[price_id] :
                      supplier_prices'[price_id][k] =
                          IF k \in provided THEN payload[k][1]
                          ELSE supplier_prices[price_id][k]
            /\ orders' = orders
            /\ order_items' = order_items]_vars

\* C10 witness: a successful update of one of two rows that provides the price
\* and leaves the stock out
C10_Witness ==
    /\ last.op = "update_supplier_price"
    /\ last.status = 200
    /\ Len(supplier_prices) = 2
    /\ last.payload.price /= <<>>
    /\ last.payload.stock = <<>>

(* ===================== properties of the cart workflow ================ *)
LinesOf(items, order_id) == {i \in DOMAIN items : items[i].order_id = order_id}

RECURSIVE LineSum(_, _)
\* the sum of quantity * unit_price over the line items ids
LineSum(items, ids) ==
    IF ids = {} THEN 0
    ELSE LET i == CHOOSE x \in ids : TRUE
         IN  items[i].quantity * items[i].unit_price + LineSum(items, ids \ {i})

LinesOfPair(items, order_id, product_id, supplier_id) ==
    {i \in LinesOf(items, order_id) :
        items[i].product_id = product_id /\ items[i].supplier_id = supplier_id}

\* the active supplier price rows of a (product, supplier) pair
ActiveRows(product_id, supplier_id) ==
    {i \in DOMAIN supplier_prices :
        /\ supplier_prices[i].product_id = product_id
        /\ supplier_prices[i].supplier_id = supplier_id
        /\ supplier_prices[i].is_active = TRUE}

\* C1: after each add-to-cart that mutates a line item, the draft order's
\* stored total_amount equals the sum of quantity * unit_price over the
\* order's current line items.
C1_TotalMatchesItems ==
    (last.op = "add_to_cart" /\ last.status = 200) =>
        /\ orders[last.order_id].status = "draft"
        /\ orders[last.order_id].total_amount =
               LineSum(order_items, LinesOf(order_items, last.order_id))

\* C1 witness: an add-to-cart has raised the quantity of a line whose unit
\* price is no longer the supplier's current price
C1_Witness ==
    /\ last.op = "add_to_cart"
    /\ last.status = 200
    /\ last.item_quantity > 0
    /\ order_items[last.item_id].unit_price /= last.unit_price

\* C2: an order holds at most one line item per (product, supplier), and the
\* item's quantity is the sum of the quantities of the successful add-to-cart
\* requests made for that pair into that order.
C2_OneLinePerPair ==
    \A o \in DOMAIN orders, product_id \in Products, supplier_id \in Suppliers :
        LET ids == LinesOfPair(order_items, o, product_id, supplier_id)
        IN  /\ Cardinality(ids) <= 1
            /\ ids = {} => added[<<o, product_id, supplier_id>>] = 0
            /\ \A i \in ids : order_items[i].quantity = added[<<o, product_id, supplier_id>>]

\* C2 witness: a second add-to-cart for a pair has been merged into the line
\* the first one made, next to a line of another product
C2_Witness ==
    /\ last.op = "add_to_cart"
    /\ last.status = 200
    /\ last.item_quantity > 0
    /\ order_items[last.item_id].quantity = last.item_quantity + last.quantity
    /\ Cardinality(LinesOf(order_items, last.order_id)) = 2

\* C3: at most one order with status draft exists per clinic user, whatever
\* the interleaving of the remote calls of add-to-cart, create-order and
\* submit-order requests.
\* (Refuted: two add-to-cart requests that both find no draft both insert one.)
C3_OneDraftPerClinic ==
    \A clinic_user_id \in Clinics :
        Cardinality({o \in DOMAIN orders :
                        /\ orders[o].clinic_user_id = clinic_user_id
                        /\ orders[o].status = "draft"}) <= 1

\* the clinic's draft orders, as the tables stand
DraftsOf(clinic_user_id) ==
    {o \in DOMAIN orders :
        orders[o].clinic_user_id = clinic_user_id /\ orders[o].status = "draft"}

\* C4: create-order fails and changes no order when the clinic has no draft
\* order or its draft has no line item; when the draft has a line item, the
\* order becomes submitted and its stored total_amount is the sum of
\* quantity * unit_price over its line items.
C4_CreateOrderContract ==
    [][last'.op = "create_order" =>
        LET drafts == DraftsOf(last'.clinic_user_id)
        IN  IF \A d \in drafts : LinesOf(order_items, d) = {}
            THEN /\ last'.status \in {400, 404}
                 /\ orders' = orders
                 /\ order_items' = order_items
            ELSE /\ last'.status = 200
                 /\ last'.order_id \in drafts
                 /\ orders'[last'.order_id].status = "submitted"
                 /\ orders'[last'.order_id].total_amount =
                        LineSum(order_items', LinesOf(order_items', last'.order_id))
                 /\ order_items' = order_items
                 /\ DOMAIN orders' = DOMAIN orders
                 /\ \A o \in DOMAIN orders : o /= last'.order_id => orders'[o] = orders[o]]_vars

\* C4 witness: a draft of two line items has been turned into a submitted order
C4_Witness ==
    /\ last.op = "create_order"
    /\ last.status = 200
    /\ orders[last.order_id].status = "submitted"
    /\ Cardinality(LinesOf(order_items, last.order_id)) = 2

\* C5: an add-to-cart is rejected with a 4xx status and creates or changes no
\* line item whenever quantity <= 0, or the (product, supplier) has no active
\* supplier price row, or the active row's stock is <= 0.
\* (Refuted: without an active row the lookup raises and the answer is 500.)
C5_RejectedWith4xx ==
    [][(/\ last'.op = "add_to_cart"
        /\ \/ last'.quantity <= 0
           \/ ActiveRows(last'.product_id, last'.supplier_id) = {}
           \/ \E i \in ActiveRows(last'.product_id, last'.supplier_id) :
                  supplier_prices[i].stock <= 0)
       => /\ last'.status \in 400..499
          /\ order_items' = order_items]_vars

\* C6: a line item's unit_price is the supplier's price at the time the item
\* was inserted and never changes afterwards: no request, be it an add-to-cart
\* for the same line or an update or deactivation of the price row, alters the
\* unit_price of an existing line item.
C6_UnitPriceIsSnapshot ==
    [][/\ \A i \in DOMAIN order_items :
            /\ i \in DOMAIN order_items'
            /\ order_items'[i].unit_price = order_items[i].unit_price
            /\ order_items'[i].quantity >= order_items[i].quantity
       /\ \A i \in DOMAIN order_items' \ DOMAIN order_items :
            \E r \in ActiveRows(order_items'[i].product_id, order_items'[i].supplier_id) :
                order_items'[i].unit_price = supplier_prices[r].price]_vars

\* C6 witness: a line item keeps a unit price that is no longer the price of
\* the supplier's row, after a later add-to-cart for the same line
C6_Witness ==
    /\ last.op = "add_to_cart"
    /\ last.status = 200
    /\ last.item_quantity > 0
    /\ order_items[last.item_id].unit_price /= last.unit_price
    /\ order_items[last.item_id].quantity = last.item_quantity + last.quantity

\* C8: submit-order sets the clinic's draft order to submitted whatever the
\* number of its line items and leaves total_amount and the line items as they
\* were; without a draft order it answers 404 and changes nothing.
C8_SubmitOrderContract ==
    [][(last'.op = "submit_order" /\ last'.clinic_user_id /= "") =>
        LET drafts == DraftsOf(last'.clinic_user_id)
        IN  IF drafts = {}
            THEN /\ last'.status = 404
                 /\ orders' = orders
                 /\ order_items' = order_items
            ELSE /\ last'.status = 200
                 /\ last'.order_id \in drafts
                 /\ orders' = [orders EXCEPT ![last'.order_id].status = "submitted"]
                 /\ order_items' = order_items]_vars

\* C8 witness: a draft without any line item has been submitted
C8_Witness ==
    /\ last.op = "submit_order"
    /\ last.status = 200
    /\ orders[last.order_id].status = "submitted"
    /\ LinesOf(order_items, last.order_id) = {}


(* ==================== properties of the offer queries ================= *)
\* the rows of the product that are active and in stock
ListedIds(product_id) ==
    {i \in DOMAIN supplier_prices :
        /\ supplier_prices[i].product_id = product_id
        /\ supplier_prices[i].is_active = TRUE
        /\ supplier_prices[i].stock > 0}

ListingIsExact(offers, product_id) ==
    /\ {offers[i].id : i \in DOMAIN offers} = ListedIds(product_id)
    /\ Len(offers) = Cardinality(ListedIds(product_id))
    /\ \A i \in DOMAIN offers :
          /\ offers[i].price = supplier_prices[offers[i].id].price
          /\ offers[i].delivery_days = supplier_prices[offers[i].id].delivery_days
          /\ offers[i].stock = supplier_prices[offers[i].id].stock

ListingIsSorted(offers) ==
    \A i, j \in DOMAIN offers :
        i < j =>
            \/ offers[i].price < offers[j].price
            \/ /\ offers[i].price = offers[j].price
               /\ offers[i].delivery_days <= offers[j].delivery_days

C7_ListingPart ==
    last.op = "get_product_offers" =>
        /\ ListingIsExact(last.offers, last.product_id)
        /\ ListingIsSorted(last.offers)

\* C7 as stated: the listing holds exactly the active in-stock rows of the
\* product, by price then delivery_days, and best-offer returns the first
\* element of the listing (none when the listing is empty).
\* (Refuted: with two listed rows equal on both sort keys, the row best-offer
\* returns need not be the row the listing puts first.)
C7_BestIsFirstOfListing ==
    /\ C7_ListingPart
    /\ last.op = "get_product_best_offer" =>
          \A r \in get_product_offers(db_now, last.product_id) :
              last.best_offer =
                  IF r.resp.offers = <<>> THEN <<>> ELSE <<r.resp.offers[1]>>

\* C7 amended: the listing holds exactly the active in-stock rows of the
\* product, by price then delivery_days; best-offer returns none when the
\* listing is empty and otherwise a row of the listing whose price and
\* delivery_days are those of the listing's first element.
C7_BestTiesWithFirst ==
    /\ C7_ListingPart
    /\ last.op = "get_product_best_offer" =>
          \A r \in get_product_offers(db_now, last.product_id) :
              LET offers == r.resp.offers
              IN  IF offers = <<>> THEN last.best_offer = <<>>
                  ELSE /\ last.best_offer /= <<>>
                       /\ \E i \in DOMAIN offers : offers[i] = last.best_offer[1]
                       /\ last.best_offer[1].price = offers[1].price
                       /\ last.best_offer[1].delivery_days = offers[1].delivery_days

\* C7 witness: a listing of two rows of equal price that the tie-break on
\* delivery_days has put in the opposite order of their insertion
C7_Witness ==
    /\ last.op = "get_product_offers"
    /\ Len(last.offers) = 2
    /\ last.offers[1].price = last.offers[2].price
    /\ last.offers[1].delivery_days < last.offers[2].delivery_days
    /\ last.offers[1].id > last.offers[2].id

(* ================= properties of overlapping add-to-cart ============== *)
\* worker v has an add-to-cart request in hand that found the line item_id
\* with quantity item_quantity and has made its write of the new quantity
HasWritten(v, item_id, item_quantity) ==
    /\ procs[v].op = "add_to_cart"
    /\ procs[v].pc \in {"recalc_select", "recalc_update", "done"}
    /\ procs[v].status \in {0, 200}
    /\ procs[v].item_id = item_id
    /\ procs[v].item_quantity = item_quantity
    /\ item_quantity > 0

\* worker w makes the write of its add-to-cart request to an existing line
WritesItem(w) ==
    /\ procs[w].pc = "update_item"
    /\ procs'[w].pc = "recalc_select"

\* C11: when two add-to-cart requests for the same clinic, product and
\* supplier overlap on an existing line item and both read the same quantity
\* before either writes, the second write stores the quantity read plus its
\* own requested quantity only: the quantity the first request added is lost.
C11_LostUpdate ==
    [][\A w \in Workers : \A v \in Workers \ {w} :
          (WritesItem(w) /\ HasWritten(v, procs[w].item_id, procs[w].item_quantity))
              => /\ order_items'[procs[w].item_id].quantity
                        = procs[w].item_quantity + procs[w].quantity
                 /\ order_items'[procs[w].item_id].quantity
                        < procs[w].item_quantity + procs[v].quantity + procs[w].quantity]_vars

\* C11 witness: both requests have been answered 200 for the same line, both
\* had read the same quantity, and the line holds that quantity plus one of
\* the two requested quantities
C11_Witness ==
    \E w \in Workers : \E v \in Workers \ {w} :
        /\ procs[w].pc = "done" /\ procs[w].status = 200
        /\ procs[v].pc = "done" /\ procs[v].status = 200
        /\ HasWritten(v, procs[w].item_id, procs[w].item_quantity)
        /\ HasWritten(w, procs[v].item_id, procs[v].item_quantity)
        /\ procs[w].clinic_user_id = procs[v].clinic_user_id
        /\ procs[w].product_id = procs[v].product_id
        /\ procs[w].supplier_id = procs[v].supplier_id
        /\ order_items[procs[w].item_id].quantity
               = procs[w].item_quantity + procs[w].quantity
        /\ order_items[procs[w].item_id].quantity
               < procs[w].item_quantity + procs[w].quantity + procs[v].quantity

(* ==================== properties of the order's life ================== *)
\* the step leaves order o, its line items included, as it was
OrderUnchanged(o) ==
    /\ orders'[o] = orders[o]
    /\ LinesOf(order_items', o) = LinesOf(order_items, o)
    /\ \A i \in LinesOf(order_items, o) : order_items'[i] = order_items[i]

\* the step is an add-to-cart request that passed the quantity check, made
\* when the clinic had no draft order
AddsWithoutDraft ==
    /\ last'.op = "add_to_cart"
    /\ last'.quantity > 0
    /\ DraftsOf(last'.clinic_user_id) = {}

\* C12: with the requests executed one at a time, an order's status only
\* moves from draft to submitted; no request changes the status, the line
\* items or the total_amount of a submitted order; and an add-to-cart of a
\* clinic whose orders are all submitted creates a new draft order, which is
\* the order it works on.
C12_SubmittedIsFinal ==
    [][/\ \A o \in DOMAIN orders :
              /\ o \in DOMAIN orders'
              /\ orders'[o].clinic_user_id = orders[o].clinic_user_id
              /\ \/ orders'[o].status = orders[o].status
                 \/ orders[o].status = "draft" /\ orders'[o].status = "submitted"
              /\ orders[o].status = "submitted" => OrderUnchanged(o)
       /\ AddsWithoutDraft =>
              /\ Len(orders') = Len(orders) + 1
              /\ orders'[Len(orders')].status = "draft"
              /\ orders'[Len(orders')].clinic_user_id = last'.clinic_user_id
              /\ last'.order_id = Len(orders')
              /\ LinesOf(order_items', Len(orders')) \subseteq
                     {i \in DOMAIN order_items' : i > Len(order_items)}]_vars

\* C12 witness: the clinic's first order is submitted with its line item, and
\* an add-to-cart answered 200 after that has put a line in a second order,
\* which is a draft
C12_Witness ==
    /\ Len(orders) = 2
    /\ orders[1].status = "submitted"
    /\ orders[2].status = "draft"
    /\ orders[1].clinic_user_id = orders[2].clinic_user_id
    /\ LinesOf(order_items, 1) /= {}
    /\ last.op = "add_to_cart" /\ last.status = 200 /\ last.order_id = 2
    /\ LinesOf(order_items, 2) = {last.item_id}

====
